---- MODULE Spec2Model ----
(***************************************************************************)
(* The AirBnB dashboard: db_utils.py (connection helper), server.py (the  *)
(* Flask routes / and /locations/average) and dashboard.py (the Dash      *)
(* client that fetches the envelope once and builds a map and a table).   *)
(***************************************************************************)
EXTENDS Integers, Sequences, FiniteSets, Bags, TLC

VARIABLES
    file,          \* seed/denver_neighborhoods.geojson as the server finds it on disk
    proc,          \* the server process: "starting", "running" or "crashed"
    geojson_data,  \* server.py's module-level geojson_data
    db_up,         \* whether the PostgreSQL server accepts connections
    listings,      \* table listings: a bag of rows
    locations,     \* table locations: location_id -> row
    open_conns,    \* connections opened by db_utils and not yet closed
    call,          \* the last call served: what was asked, what happened, what came back
    dash,          \* dashboard.py: its start-up and the layout it built
    tbl            \* a stand-alone call of create_table: its arguments and its result

vars == <<file, proc, geojson_data, db_up, listings, locations, open_conns, call, dash, tbl>>

---------------------------------------------------------------------------
(* Bounds of the model *)

MaxLocations == 2
MaxListings == 2
MaxConnections == 2
MaxAggregates == 2
MaxColumns == 3

---------------------------------------------------------------------------
(* Values *)

\* A nullable SQL / Python value: <<>> is NULL / None, <<v>> is the value v.
NULL == <<>>

Some(v) == <<v>>

\* Neighbourhood names, written as their rank in the database's collation.
Names == {1, 2}

Coordinates == {<<-105, 39>>, <<-104, 40>>}

Ratings == {NULL, Some(4)}

Prices == {Some(100), Some(150)}

LocationIds == 1..MaxLocations

LocationRow(n, c) == [neighborhood_name |-> n, longitude |-> c[1], latitude |-> c[2]]

\* Every content of table locations: location_id is its key.
LocationTables ==
    UNION {[ids -> {LocationRow(n, c) : n \in Names, c \in Coordinates}] :
           ids \in SUBSET LocationIds}

\* A row of table listings; location_id need not name a row of locations.
ListingRows == [location_id : LocationIds, review_scores_rating : Ratings, price : Prices]

RECURSIVE GCD(_, _)
GCD(a, b) == IF b = 0 THEN a ELSE GCD(b, a % b)

\* The exact quotient s / n as a fraction in lowest terms.
Quotient(s, n) == LET g == GCD(s, n) IN <<s \div g, n \div g>>

---------------------------------------------------------------------------
(* The aggregation query of /locations/average *)

\* listings l JOIN locations loc ON l.location_id = loc.location_id
Joined(lst, loc) == {l \in BagToSet(lst) : l.location_id \in DOMAIN loc}

\* GROUP BY loc.neighborhood_name, loc.longitude, loc.latitude
GroupKey(l, loc) ==
    LET r == loc[l.location_id] IN <<r.neighborhood_name, r.longitude, r.latitude>>

GroupKeys(lst, loc) == {GroupKey(l, loc) : l \in Joined(lst, loc)}

GroupRows(k, lst, loc) == {l \in Joined(lst, loc) : GroupKey(l, loc) = k}

RECURSIVE SumOf(_, _, _)
\* The sum of column col over the rows of set S that are not NULL there, counting
\* each row as often as it is in the bag.
SumOf(S, lst, col) ==
    IF S = {} THEN 0
    ELSE LET l == CHOOSE x \in S : TRUE
         IN  (IF l[col] = NULL THEN 0 ELSE l[col][1] * CopiesIn(l, lst))
             + SumOf(S \ {l}, lst, col)

RECURSIVE CountOf(_, _, _)
CountOf(S, lst, col) ==
    IF S = {} THEN 0
    ELSE LET l == CHOOSE x \in S : TRUE
         IN  (IF l[col] = NULL THEN 0 ELSE CopiesIn(l, lst)) + CountOf(S \ {l}, lst, col)

\* AVG as if it were SUM(x) / COUNT(*): the rows that are NULL count too.
AVG_counting_nulls(S, lst, col) ==
    IF CountOf(S, lst, col) = 0 THEN NULL
    ELSE LET all == BagCardinality([l \in S |-> CopiesIn(l, lst)])
         IN  Quotient(SumOf(S, lst, col), all)

\* SQL AVG: the mean of the values that are not NULL, NULL when there is none.
AVG(S, lst, col) ==
    IF CountOf(S, lst, col) = 0 THEN NULL
    ELSE Quotient(SumOf(S, lst, col), CountOf(S, lst, col))

ResultRow(k, lst, loc) ==
    [neighborhood_name |-> k[1], longitude |-> k[2], latitude |-> k[3],
     average_rating |-> AVG(GroupRows(k, lst, loc), lst, "review_scores_rating"),
     average_price |-> AVG(GroupRows(k, lst, loc), lst, "price")]

ResultRows(lst, loc) == {ResultRow(k, lst, loc) : k \in GroupKeys(lst, loc)}

\* The query without its ORDER BY clause.
AnyOrder(s) == TRUE

\* ORDER BY loc.neighborhood_name
OrderedByName(s) == \A i, j \in 1..Len(s) : i < j => s[i].neighborhood_name <= s[j].neighborhood_name

\* Every sequence the query may return: each group once, ordered by name; rows of
\* equal name come in whatever order the database picks.
get_average_ratings_query(lst, loc) ==
    LET R == ResultRows(lst, loc)
        n == Cardinality(R)
    IN  {s \in [1..n -> R] : /\ \A i, j \in 1..n : i # j => s[i] # s[j]
                             /\ OrderedByName(s)}

---------------------------------------------------------------------------
(* db_utils.py *)

\* What goes wrong inside one database call: nothing, the statement raising a
\* DatabaseError, or commit raising one.
Faults == {"none", "execute", "commit"}

\* psycopg2.connect: the server must be up and have a free connection slot.
get_db_connection(up, conns) ==
    IF up /\ conns < MaxConnections
    THEN [ok |-> TRUE, exc |-> ""]
    ELSE [ok |-> FALSE, exc |-> "OperationalError"]

\* The body of execute_query's try block: the steps it took and how it ended.
\* description is cursor.description being set, rows what fetchall() yields;
\* result is <<>> for None and <<rows>> for a list of rows.
query_body(fault, description, rows) ==
    IF fault = "execute"
    THEN [events |-> <<>>, exc |-> "DatabaseError", result |-> NULL]
    ELSE LET fetched == IF description THEN <<"execute", "fetchall">> ELSE <<"execute">>
         IN  IF fault = "commit"
             THEN [events |-> fetched, exc |-> "DatabaseError", result |-> NULL]
             ELSE [events |-> fetched \o <<"commit">>, exc |-> "",
                   result |-> IF description THEN Some(rows) ELSE NULL]

\* The body of execute_batch_query's try block; committed tells whether the
\* batch reached the table.
batch_body(fault) ==
    IF fault = "execute"
    THEN [events |-> <<>>, exc |-> "DatabaseError", committed |-> FALSE]
    ELSE IF fault = "commit"
    THEN [events |-> <<"execute_batch">>, exc |-> "DatabaseError", committed |-> FALSE]
    ELSE [events |-> <<"execute_batch", "commit">>, exc |-> "", committed |-> TRUE]

\* The try block without its finally clause: close() only after a clean run.
close_on_success(body) ==
    <<"connect">> \o body.events
        \o (IF body.exc = "" THEN <<"close", "return">> ELSE <<"raise">>)

\* try ... finally: conn.close(), then the return or the re-raise.
finally_close(body) ==
    <<"connect">> \o body.events \o <<"close">>
        \o <<IF body.exc = "" THEN "return" ELSE "raise">>

\* One call of execute_query: conn is opened before the try block, so a failed
\* connect raises with nothing to close.
execute_query(up, conns, fault, description, rows) ==
    LET conn == get_db_connection(up, conns)
        body == query_body(fault, description, rows)
    IN  IF ~conn.ok
        THEN [events |-> <<"raise">>, exc |-> conn.exc, result |-> NULL]
        ELSE [events |-> finally_close(body), exc |-> body.exc, result |-> body.result]

execute_batch_query(up, conns, fault) ==
    LET conn == get_db_connection(up, conns)
        body == batch_body(fault)
    IN  IF ~conn.ok
        THEN [events |-> <<"raise">>, exc |-> conn.exc, committed |-> FALSE]
        ELSE [events |-> finally_close(body), exc |-> body.exc,
              committed |-> body.committed]

RECURSIVE Count(_, _)
\* How often event e is in the sequence s.
Count(s, e) ==
    IF s = <<>> THEN 0 ELSE (IF Head(s) = e THEN 1 ELSE 0) + Count(Tail(s), e)

\* The connections a call leaves open: those it opened and did not close.
LeftOpen(events) == Count(events, "connect") - Count(events, "close")

---------------------------------------------------------------------------
(* server.py *)

\* The states of the boundary file that open() and json.load() tell apart:
\* readable JSON, no such file (FileNotFoundError), a file the process may not
\* read (PermissionError), and text that is no JSON (JSONDecodeError).
FileStates == {"valid", "missing", "unreadable", "malformed"}

\* Python values of geojson_data: not yet bound, None, or the parsed file.
Unbound == [type |-> "unbound"]

None == [type |-> "NoneType"]

FeatureCollection == [type |-> "FeatureCollection", features |-> Names]

\* An HTTP exchange that got no answer: nothing listens on the port.
Refused == [status |-> 0, body |-> [refused |-> TRUE]]

hello_world == [status |-> 200, body |-> [text |-> "Hello, World!"]]

\* The dictionary the route appends for one row of the query result.
Entry(row) ==
    [neighborhood_name |-> row.neighborhood_name,
     average_rating |-> row.average_rating,
     average_price |-> row.average_price,
     longitude |-> row.longitude,
     latitude |-> row.latitude]

\* The loop leaving the last row out.
location_data_truncated(results) ==
    [i \in 1..(IF Len(results) = 0 THEN 0 ELSE Len(results) - 1) |-> Entry(results[i])]

\* location_data: one dictionary per row, in the order of the rows.
location_data(results) == [i \in 1..Len(results) |-> Entry(results[i])]

\* No except clause: the exception leaves the route and Flask answers with its
\* own error page.
reraise(e, events) ==
    [status |-> 500, body |-> [html |-> "Internal Server Error"], events |-> events,
     results |-> NULL]

\* except Exception as e: the 500 response carrying str(e).
handle_exception(e, events) ==
    [status |-> 500, body |-> [error |-> e], events |-> events, results |-> NULL]

\* The try block of the route once execute_query has come back as q: its
\* exception is caught, iterating over None raises a TypeError that is caught
\* as well, and otherwise the envelope is built.
respond(gj, q) ==
    IF q.exc # "" THEN handle_exception(q.exc, q.events)
    ELSE IF q.result = NULL THEN handle_exception("TypeError", q.events)
    ELSE [status |-> 200,
          body |-> [data |-> location_data(q.result[1]), geojson |-> gj],
          events |-> q.events, results |-> q.result]

\* The route running the query before it looks at geojson_data.
get_average_ratings_query_first(gj, up, conns, fault, description, rows) ==
    LET r == respond(gj, execute_query(up, conns, fault, description, rows)) IN
    IF gj = None
    THEN [status |-> 500, body |-> [error |-> "GeoJSON data not found"],
          events |-> r.events, results |-> NULL]
    ELSE r

\* The route /locations/average: the response, with the database steps taken
\* and what execute_query handed back.
get_average_ratings(gj, up, conns, fault, description, rows) ==
    IF gj = None
    THEN [status |-> 500, body |-> [error |-> "GeoJSON data not found"],
          events |-> <<>>, results |-> NULL]
    ELSE respond(gj, execute_query(up, conns, fault, description, rows))

---------------------------------------------------------------------------
(* dashboard.py *)

KeyError == [ok |-> FALSE, error |-> "KeyError"]

\* The keys create_map reads from every aggregate, in the order it reads them.
MapKeys == <<"neighbourhood", "average_rating", "average_price">>

\* The column descriptors app.layout hands to create_table.
LayoutKeys ==
    <<[label |-> "Neighbourhood", value |-> "neighbourhood"],
      [label |-> "Average Rating", value |-> "average_rating"],
      [label |-> "Average Price", value |-> "average_price"]>>

\* create_map: three list comprehensions over locations, each a subscript
\* that raises KeyError on an aggregate without the key.
create_map(locs, gj) ==
    IF \E i \in 1..Len(locs), k \in 1..Len(MapKeys) : MapKeys[k] \notin DOMAIN locs[i]
    THEN KeyError
    ELSE [ok |-> TRUE,
          figure |-> [geojson |-> gj,
                      featureidkey |-> "properties.neighbourhood",
                      locations |-> [i \in 1..Len(locs) |-> locs[i]["neighbourhood"]],
                      z |-> [i \in 1..Len(locs) |-> locs[i]["average_rating"]],
                      customdata |-> [i \in 1..Len(locs) |-> <<locs[i]["average_price"]>>]]]

\* create_table reading with a default: a missing key gives a cell of 0.
create_table_blank_cells(locs, keys) ==
    [ok |-> TRUE,
     thead |-> <<[j \in 1..Len(keys) |-> keys[j].label]>>,
     tbody |-> [i \in 1..Len(locs) |->
                   [j \in 1..Len(keys) |->
                       IF keys[j].value \in DOMAIN locs[i] THEN locs[i][keys[j].value]
                       ELSE 0]]]

\* create_table: a header of labels and one row per aggregate, each cell the
\* aggregate's value under the descriptor's value key.
create_table(locs, keys) ==
    IF \E i \in 1..Len(locs), j \in 1..Len(keys) : keys[j].value \notin DOMAIN locs[i]
    THEN KeyError
    ELSE [ok |-> TRUE,
          thead |-> <<[j \in 1..Len(keys) |-> keys[j].label]>>,
          tbody |-> [i \in 1..Len(locs) |->
                        [j \in 1..Len(keys) |-> locs[i][keys[j].value]]]]

\* The module body of dashboard.py after the fetch: read the envelope, build
\* the map, then the table.
build_layout(response) ==
    IF response.status = 0
    THEN [state |-> "failed", status |-> 0, error |-> "ConnectionError"]
    ELSE IF ~({"data", "geojson"} \subseteq DOMAIN response.body)
    THEN [state |-> "failed", status |-> response.status, error |-> "KeyError"]
    ELSE LET locs == response.body.data
             gj == response.body.geojson
         IN  IF ~create_map(locs, gj).ok \/ ~create_table(locs, LayoutKeys).ok
             THEN [state |-> "failed", status |-> response.status, error |-> "KeyError"]
             ELSE [state |-> "rendered", status |-> response.status, error |-> ""]

---------------------------------------------------------------------------
(* The state machine *)

NoCall == [op |-> "none", db_up |-> TRUE, events |-> <<>>, results |-> NULL,
           response |-> Refused]

NotStarted == [state |-> "not_started", status |-> 0, error |-> ""]

NoTable == [locations |-> <<>>, keys |-> <<>>, result |-> [ok |-> FALSE, error |-> ""]]

RECURSIVE SeqToBag(_)
SeqToBag(s) == IF s = <<>> THEN EmptyBag ELSE SetToBag({Head(s)}) (+) SeqToBag(Tail(s))

\* The contents of locations the seed data is drawn from: no row, one
\* neighbourhood, two neighbourhoods, one neighbourhood at two coordinates.
SeedLocations ==
    {t \in LocationTables :
        \/ DOMAIN t = {}
        \/ DOMAIN t = {1} /\ t[1] = LocationRow(1, <<-105, 39>>)
        \/ /\ DOMAIN t = {1, 2}
           /\ t[1] = LocationRow(2, <<-105, 39>>)
           /\ t[2] \in {LocationRow(1, <<-104, 40>>), LocationRow(2, <<-104, 40>>)}}

\* The batches of listings rows the seed script writes.
SeedBatches ==
    {<<[location_id |-> 1, review_scores_rating |-> Some(4), price |-> Some(100)]>>,
     <<[location_id |-> 2, review_scores_rating |-> NULL, price |-> Some(150)]>>,
     <<[location_id |-> 1, review_scores_rating |-> Some(4), price |-> Some(100)],
       [location_id |-> 1, review_scores_rating |-> NULL, price |-> Some(150)]>>}

Init ==
    /\ file \in FileStates
    /\ proc = "starting"
    /\ geojson_data = Unbound
    /\ db_up \in BOOLEAN
    /\ listings = EmptyBag
    /\ locations \in SeedLocations
    /\ open_conns = 0
    /\ call = NoCall
    /\ dash = NotStarted
    /\ tbl = NoTable

\* The load without its except clause: a missing file ends the import too.
LoadGeoJson_uncaught ==
    /\ proc = "starting"
    /\ geojson_data' = IF file = "valid" THEN FeatureCollection ELSE geojson_data
    /\ proc' = IF file = "valid" THEN "running" ELSE "crashed"
    /\ UNCHANGED <<file, db_up, listings, locations, open_conns, call, dash, tbl>>

\* server.py's module body: load the boundary file, catching FileNotFoundError
\* only; any other exception ends the import, and with it the process.
LoadGeoJson ==
    /\ proc = "starting"
    /\ geojson_data' = IF file = "valid" THEN FeatureCollection
                       ELSE IF file = "missing" THEN None
                       ELSE geojson_data
    /\ proc' = IF file \in {"valid", "missing"} THEN "running" ELSE "crashed"
    /\ UNCHANGED <<file, db_up, listings, locations, open_conns, call, dash, tbl>>

\* What a GET of /locations/average comes back with.
ServeAverage(fault, description, rows) ==
    IF proc = "running"
    THEN get_average_ratings(geojson_data, db_up, open_conns, fault, description, rows)
    ELSE [status |-> 0, body |-> Refused.body, events |-> <<>>, results |-> NULL]

AsCall(op, r) ==
    [op |-> op, db_up |-> db_up, events |-> r.events, results |-> r.results,
     response |-> [status |-> r.status, body |-> r.body]]

\* GET /
GetRoot ==
    /\ proc # "starting"
    /\ call' = [NoCall EXCEPT !.op = "hello_world", !.db_up = db_up,
                              !.response = IF proc = "running" THEN hello_world
                                           ELSE Refused]
    /\ UNCHANGED <<file, proc, geojson_data, db_up, listings, locations, open_conns,
                   dash, tbl>>

\* GET /locations/average
GetLocationsAverage ==
    /\ proc # "starting"
    /\ \E fault \in Faults, description \in BOOLEAN,
          rows \in get_average_ratings_query(listings, locations) :
         LET r == ServeAverage(fault, description, rows) IN
         /\ call' = AsCall("get_average_ratings", r)
         /\ open_conns' = open_conns + LeftOpen(r.events)
    /\ UNCHANGED <<file, proc, geojson_data, db_up, listings, locations, dash, tbl>>

\* The seed script: one call of execute_batch_query inserting a batch of listings.
SeedListings ==
    /\ \E batch \in SeedBatches, fault \in Faults :
         LET r == execute_batch_query(db_up, open_conns, fault) IN
         /\ BagCardinality(listings) + Len(batch) <= MaxListings
         /\ listings' = IF r.committed THEN listings (+) SeqToBag(batch) ELSE listings
         /\ open_conns' = open_conns + LeftOpen(r.events)
         /\ call' = [NoCall EXCEPT !.op = "execute_batch_query", !.db_up = db_up,
                                   !.events = r.events]
    /\ UNCHANGED <<file, proc, geojson_data, db_up, locations, dash, tbl>>

\* The database server stops or starts accepting connections.
DbDown ==
    /\ db_up
    /\ db_up' = FALSE
    /\ UNCHANGED <<file, proc, geojson_data, listings, locations, open_conns, call,
                   dash, tbl>>

DbUp ==
    /\ ~db_up
    /\ db_up' = TRUE
    /\ UNCHANGED <<file, proc, geojson_data, listings, locations, open_conns, call,
                   dash, tbl>>

\* dashboard.py starts: one GET of /locations/average, then the layout.
StartDashboard ==
    /\ proc # "starting"
    /\ dash = NotStarted
    /\ \E fault \in Faults, description \in BOOLEAN,
          rows \in get_average_ratings_query(listings, locations) :
         LET r == ServeAverage(fault, description, rows) IN
         /\ call' = AsCall("get_average_ratings", r)
         /\ open_conns' = open_conns + LeftOpen(r.events)
         /\ dash' = build_layout([status |-> r.status, body |-> r.body])
    /\ UNCHANGED <<file, proc, geojson_data, db_up, listings, locations, tbl>>

Next ==
    \/ LoadGeoJson
    \/ GetRoot
    \/ GetLocationsAverage
    \/ SeedListings
    \/ DbDown
    \/ DbUp
    \/ StartDashboard

Spec == Init /\ [][Next]_vars

---------------------------------------------------------------------------
(* The aggregation route over every content of the two tables: the server has
   started with its boundary file and the database is seeded. *)

\* Every content of table listings of at most MaxListings rows.
ListingBags ==
    {SeqToBag(rows) : rows \in UNION {[1..n -> ListingRows] : n \in 0..MaxListings}}

InitQuery ==
    /\ file = "valid"
    /\ proc = "running"
    /\ geojson_data = FeatureCollection
    /\ db_up = TRUE
    /\ listings \in ListingBags
    /\ locations \in LocationTables
    /\ open_conns = 0
    /\ call = NoCall
    /\ dash = NotStarted
    /\ tbl = NoTable

NextQuery == GetLocationsAverage

SpecQuery == InitQuery /\ [][NextQuery]_vars

---------------------------------------------------------------------------
(* create_table on its own: any aggregates, any column descriptors. *)

TableKeys == {"neighbourhood", "average_rating", "average_price"}

TableValues == {1, 2}

\* Aggregates as dictionaries: every key, or every key but average_price.
Aggregates == [TableKeys -> TableValues] \cup [TableKeys \ {"average_price"} -> TableValues]

Descriptors == {LayoutKeys[j] : j \in 1..Len(LayoutKeys)}

\* The default of create_table's parameter keys.
DefaultKeys == <<[label |-> "Test Label", value |-> "test_value"]>>

InitTable ==
    /\ file = "valid"
    /\ proc = "starting"
    /\ geojson_data = Unbound
    /\ db_up = TRUE
    /\ listings = EmptyBag
    /\ locations \in {t \in LocationTables : DOMAIN t = {}}
    /\ open_conns = 0
    /\ call = NoCall
    /\ dash = NotStarted
    /\ \E locs \in UNION {[1..n -> Aggregates] : n \in 0..MaxAggregates},
          keys \in UNION {[1..k -> Descriptors] : k \in 0..MaxColumns} \cup {DefaultKeys} :
         tbl = [NoTable EXCEPT !.locations = locs, !.keys = keys]

\* One call create_table(locations, keys).
CreateTable ==
    /\ tbl.result = NoTable.result
    /\ tbl' = [tbl EXCEPT !.result = create_table(tbl.locations, tbl.keys)]
    /\ UNCHANGED <<file, proc, geojson_data, db_up, listings, locations, open_conns,
                   call, dash>>

NextTable == CreateTable

SpecTable == InitTable /\ [][NextTable]_vars

---------------------------------------------------------------------------
(* Properties *)

IsAverageCall == call.op = "get_average_ratings" /\ call.response.status # 0

Index(s, e) == CHOOSE i \in 1..Len(s) : s[i] = e

Last(s) == s[Len(s)]

\* C1: every call of execute_query and of execute_batch_query that opened a
\* connection closed it, whichever way the call ended, and closed it before
\* it returned or raised; between calls no connection is left open.
C1_ConnectionClosed ==
    /\ open_conns = 0
    /\ Count(call.events, "connect") > 0 =>
         /\ Count(call.events, "connect") = 1
         /\ Count(call.events, "close") = 1
         /\ Index(call.events, "connect") < Index(call.events, "close")
         /\ Index(call.events, "close") = Len(call.events) - 1
         /\ Last(call.events) \in {"return", "raise"}

\* A call whose commit raised after the rows were fetched.
C1_Witness ==
    /\ call.op = "get_average_ratings"
    /\ call.events = <<"connect", "execute", "fetchall", "close", "raise">>

\* C2 as stated: whenever the boundary file failed to load, whatever the
\* reason, /locations/average answers 500 "GeoJSON data not found" and /
\* answers 200.
C2_AnyLoadFailure ==
    (file # "valid" /\ proc # "starting") =>
        /\ call.op = "get_average_ratings" =>
             call.response = [status |-> 500,
                              body |-> [error |-> "GeoJSON data not found"]]
        /\ call.op = "hello_world" => call.response.status = 200

\* C2 as amended: when the boundary file is missing, /locations/average
\* answers 500 "GeoJSON data not found" and / answers 200, for every later
\* request; when the load fails in another way the process has ended and no
\* request is answered.
C2_MissingFile ==
    /\ (file = "missing" /\ proc # "starting") =>
        /\ proc = "running"
        /\ call.op = "get_average_ratings" =>
             call.response = [status |-> 500,
                              body |-> [error |-> "GeoJSON data not found"]]
        /\ call.op = "hello_world" => call.response = hello_world
    /\ (file \in {"unreadable", "malformed"} /\ proc # "starting") =>
        /\ proc = "crashed"
        /\ call.op \in {"get_average_ratings", "hello_world"} => call.response = Refused

\* The file is missing, the database is up, and the aggregate route was asked.
C2_Witness ==
    /\ file = "missing"
    /\ call.db_up
    /\ call.op = "get_average_ratings"
    /\ call.response.status = 500

\* C3: with the boundary file loaded and the database unreachable,
\* /locations/average answers 500 with an error key; the process is still
\* running, and / is answered with 200 whenever it is asked.
C3_DatabaseUnreachable ==
    /\ (IsAverageCall /\ geojson_data = FeatureCollection /\ ~call.db_up) =>
         /\ call.response.status = 500
         /\ "error" \in DOMAIN call.response.body
         /\ proc = "running"
    /\ (proc = "running" /\ call.op = "hello_world") => call.response = hello_world

\* The connect failed inside a request that had the boundary file.
C3_Witness ==
    /\ IsAverageCall
    /\ geojson_data = FeatureCollection
    /\ ~call.db_up
    /\ call.events = <<"raise">>

\* C8: a response of /locations/average is either 200 with data and geojson,
\* data holding one entry for every row the query returned, or 500 with an
\* error key and nothing else.
C8_NoPartialResult ==
    IsAverageCall =>
        \/ /\ call.response.status = 200
           /\ DOMAIN call.response.body = {"data", "geojson"}
           /\ call.response.body.geojson = FeatureCollection
           /\ call.results # NULL
           /\ Len(call.response.body.data) = Len(call.results[1])
           /\ \A i \in 1..Len(call.results[1]) :
                call.response.body.data[i] = call.results[1][i]
           /\ Last(call.events) = "return"
        \/ /\ call.response.status = 500
           /\ DOMAIN call.response.body = {"error"}

\* The query ran and its rows were fetched, then the call failed: a 500.
C8_Witness ==
    /\ IsAverageCall
    /\ "fetchall" \in {call.events[i] : i \in 1..Len(call.events)}
    /\ Last(call.events) = "raise"
    /\ BagCardinality(listings) > 0
    /\ call.response.status = 500

\* C10: a request that finds the boundary file not loaded touches no
\* connection and runs no query, and no step after start-up changes
\* geojson_data.
C10_BoundaryCheckedFirst ==
    /\ [](IsAverageCall /\ geojson_data = None =>
            /\ call.events = <<>>
            /\ call.results = NULL
            /\ open_conns = 0)
    /\ [][proc # "starting" => geojson_data' = geojson_data /\ proc' = proc]_vars

\* The database was reachable, yet the request did not go to it.
C10_Witness ==
    /\ IsAverageCall
    /\ geojson_data = None
    /\ call.db_up
    /\ BagCardinality(listings) > 0

\* C5: when the dashboard got a 200 envelope, its start-up completed.
C5_StartupCompletes ==
    (dash.state # "not_started" /\ dash.status = 200) => dash.state = "rendered"

Data == call.response.body.data

IsEnvelope == IsAverageCall /\ call.response.status = 200

\* C4: no two entries of data carry the same neighborhood_name.
C4_UniqueNames ==
    IsEnvelope =>
        \A i, j \in 1..Len(Data) :
            i # j => Data[i].neighborhood_name # Data[j].neighborhood_name

\* C6: data is ordered by neighborhood name ascending and is the query's
\* result, row for row: every group of the join once, none dropped, none twice,
\* in the order the database returned them.
C6_OrderedByName ==
    IsEnvelope =>
        /\ \A i, j \in 1..Len(Data) :
             i < j => Data[i].neighborhood_name <= Data[j].neighborhood_name
        /\ Len(Data) = Cardinality(ResultRows(listings, locations))
        /\ {Data[i] : i \in 1..Len(Data)} = ResultRows(listings, locations)
        /\ Data = call.results[1]

\* Two neighbourhoods with listings, the lower name first.
C6_Witness ==
    /\ IsEnvelope
    /\ Len(Data) = 2
    /\ Data[1].neighborhood_name < Data[2].neighborhood_name

RECURSIVE Sigma(_)
\* The sum of the values of a function of finite domain.
Sigma(f) ==
    IF DOMAIN f = {} THEN 0
    ELSE LET x == CHOOSE y \in DOMAIN f : TRUE
         IN  f[x] + Sigma([y \in DOMAIN f \ {x} |-> f[y]])

\* The listings joined to the locations rows of entry e, each with its count.
EntryListings(e) ==
    LET rows == {l \in BagToSet(listings) :
                    /\ l.location_id \in DOMAIN locations
                    /\ locations[l.location_id]
                         = LocationRow(e.neighborhood_name, <<e.longitude, e.latitude>>)}
    IN  [l \in rows |-> CopiesIn(l, listings)]

ColumnValues == {v[1] : v \in (Ratings \cup Prices) \ {NULL}}

\* How many listings of B hold value v in column col.
Having(B, col, v) == Sigma([l \in {x \in DOMAIN B : x[col] = Some(v)} |-> B[l]])

NonNull(B, col) == Sigma([v \in ColumnValues |-> Having(B, col, v)])

Total(B, col) == Sigma([v \in ColumnValues |-> v * Having(B, col, v)])

\* avg is the number total / n.
IsMean(avg, total, n) == avg # NULL /\ n > 0 /\ avg[2] > 0 /\ avg[1] * n = avg[2] * total

\* No entry for a name of the boundary file that no joined listing carries.
AbsentNamesAbsent ==
    \A n \in FeatureCollection.features :
        (~\E l \in BagToSet(listings) :
            /\ l.location_id \in DOMAIN locations
            /\ locations[l.location_id].neighborhood_name = n)
        => \A i \in 1..Len(Data) : Data[i].neighborhood_name # n

\* C7 as stated: each average is the mean over all the listings joined to the
\* entry's location, and a neighbourhood outside the join is not in data.
C7_MeanOverAllListings ==
    IsEnvelope =>
        /\ \A i \in 1..Len(Data) :
             LET B == EntryListings(Data[i]) IN
             /\ IsMean(Data[i].average_rating, Total(B, "review_scores_rating"),
                       BagCardinality(B))
             /\ IsMean(Data[i].average_price, Total(B, "price"), BagCardinality(B))
        /\ AbsentNamesAbsent

\* C7 as amended: each average is the mean over the joined listings whose
\* value is not NULL, and null when every one of them is NULL; a neighbourhood
\* outside the join is not in data.
C7_MeanOverNonNull ==
    IsEnvelope =>
        /\ \A i \in 1..Len(Data) :
             LET B == EntryListings(Data[i])
                 MeanOrNull(avg, col) ==
                     IF NonNull(B, col) = 0 THEN avg = NULL
                     ELSE IsMean(avg, Total(B, col), NonNull(B, col))
             IN  /\ BagCardinality(B) > 0
                 /\ MeanOrNull(Data[i].average_rating, "review_scores_rating")
                 /\ MeanOrNull(Data[i].average_price, "price")
        /\ AbsentNamesAbsent

\* Listings priced 100 and 150 and never rated: average_price 125, no rating;
\* the other neighbourhood of the boundary file has no entry.
C7_Witness ==
    /\ IsEnvelope
    /\ Len(Data) = 1
    /\ Data[1].average_price = <<125, 1>>
    /\ Data[1].average_rating = NULL
    /\ BagCardinality(listings) = 2
    /\ Cardinality(FeatureCollection.features) > 1

\* C9: create_table gives one header row of the labels in descriptor order and
\* one body row per aggregate, in aggregate order, cell (i, j) being aggregate
\* i's value under descriptor j's key; if some aggregate lacks a key it raises
\* KeyError.
C9_TableShape ==
    tbl.result # NoTable.result =>
        LET n == Len(tbl.locations)
            k == Len(tbl.keys)
            r == tbl.result
        IN  IF \A i \in 1..n, j \in 1..k : tbl.keys[j].value \in DOMAIN tbl.locations[i]
            THEN /\ r.ok
                 /\ Len(r.thead) = 1
                 /\ Len(r.thead[1]) = k
                 /\ \A j \in 1..k : r.thead[1][j] = tbl.keys[j].label
                 /\ Len(r.tbody) = n
                 /\ \A i \in 1..n :
                      /\ Len(r.tbody[i]) = k
                      /\ \A j \in 1..k :
                           r.tbody[i][j] = tbl.locations[i][tbl.keys[j].value]
            ELSE ~r.ok /\ r.error = "KeyError"

\* Two aggregates and three descriptors, every key present.
C9_Witness ==
    /\ Len(tbl.locations) = 2
    /\ Len(tbl.keys) = 3
    /\ tbl.result.ok
    /\ tbl.locations[1] # tbl.locations[2]

====
